---- MODULE Spec2Model ----
(***************************************************************************)
(* Model of the DVA audio nodes (src/audio_duration_version.py).           *)
(*                                                                         *)
(* The nodes are request/response functions.  The state is the file        *)
(* system, the two module-level availability flags, and the last call      *)
(* with the answer of the external backend it consumed and the tuple it    *)
(* returned.  One action per entry point; each action applies the          *)
(* operator translated from the entry point's code.  The host calls one    *)
(* node at a time: pc is "idle" between calls and "returned" while the     *)
(* host holds the tuple of the last call.                                  *)
(*                                                                         *)
(* Conventions                                                             *)
(*  - a path is a sequence of one-character strings;                       *)
(*  - an exact duration is a mixed fraction sec + num/den (0 <= num < den);*)
(*  - a rounded duration (the FLOAT output of the duration node) is        *)
(*    sec + micro/10^6, since time_precision is at most 6;                 *)
(*  - a status string f"error: {msg}" is the pair <<"error: ", msg>>, the  *)
(*    messages being rendered in ASCII; "success" is <<"success">>;        *)
(*  - a raised exception is a result with raised = TRUE.                   *)
(***************************************************************************)
EXTENDS Integers, Sequences, FiniteSets, TLC

VARIABLES fs, PYDUB_AVAILABLE, LIBROSA_AVAILABLE, pc, call, env, ret

vars == <<fs, PYDUB_AVAILABLE, LIBROSA_AVAILABLE, pc, call, env, ret>>

(***************************************************************************)
(* Bounds of the model.                                                    *)
(***************************************************************************)
\* size in bytes of a non-empty file
FileSize == 7
\* largest sample rate given with a buffer (besides the default rate)
MaxRate == 4
\* bytes per element of a buffer (tensor.element_size())
ElementSize == 4

(***************************************************************************)
(* Program constants.                                                      *)
(***************************************************************************)
\* audio.get('sample_rate', 24000)
DefaultSampleRate == 24000
\* INPUT_TYPES: time_precision max
MaxPrecision == 6
\* INPUT_TYPES: time_precision default
DefaultPrecision == 3
\* INPUT_TYPES: silence_threshold_db default
DefaultThresholdDb == -60

(***************************************************************************)
(* Paths and the file system.                                              *)
(***************************************************************************)
InputDir == <<"i">>
OutputDir == <<"o">>
TempDir == <<"t">>

FileA == <<"i", "/", "a", ".", "M", "P", "3">>
FileB == <<"i", "/", "b", ".", "w", "a", "v">>
FileD == <<"i", "/", "d", ".", "o", "g", "g">>
NameA == <<"a", ".", "M", "P", "3">>
EmptyStr == <<>>

FsPaths == {FileA, FileB, FileD}

AllFiles == [p \in FsPaths |-> "file"]

\* the file systems of the model: every path a non-empty regular file, or one
\* of them missing, and FileA also empty or a directory
FsStates == {AllFiles} \cup {[AllFiles EXCEPT ![p] = "missing"] : p \in FsPaths} \cup {[AllFiles EXCEPT ![FileA] = k] : k \in {"empty", "dir"}}

StripSlash(p) == IF Len(p) > 1 /\ p[Len(p)] = "/" THEN SubSeq(p, 1, Len(p) - 1) ELSE p

Kind(f, p) ==
    LET q == StripSlash(p)
    IN  IF q \in DOMAIN f THEN (IF q # p /\ f[q] # "dir" THEN "missing" ELSE f[q])
        ELSE IF q \in {InputDir, OutputDir, TempDir} THEN "dir"
        ELSE "missing"

\* os.path.exists / isfile / isdir / getsize on the current file system
exists(p) == p # EmptyStr /\ Kind(fs, p) # "missing"

isfile(p) == p # EmptyStr /\ Kind(fs, p) \in {"file", "empty"}

isdir(p) == p # EmptyStr /\ Kind(fs, p) = "dir"

getsize(p) == IF Kind(fs, p) = "empty" THEN 0 ELSE FileSize

join(a, b) ==
    IF b # EmptyStr /\ b[1] = "/" THEN b
    ELSE IF a = EmptyStr THEN b
    ELSE IF a[Len(a)] = "/" THEN a \o b
    ELSE a \o <<"/">> \o b

LastIndexOf(s, c) ==
    LET I == {i \in 1..Len(s) : s[i] = c}
    IN  IF I = {} THEN 0 ELSE CHOOSE i \in I : \A j \in I : j <= i

\* os.path.splitext(p)[1]
splitext(p) ==
    LET sep == LastIndexOf(p, "/")
        dot == LastIndexOf(p, ".")
    IN  IF dot > sep /\ (\E k \in (sep + 1)..(dot - 1) : p[k] # ".")
        THEN SubSeq(p, dot, Len(p))
        ELSE EmptyStr

\* os.path.basename(p)
basename(p) == SubSeq(p, LastIndexOf(p, "/") + 1, Len(p))

LowerChar(c) ==
    CASE c = "A" -> "a" [] c = "C" -> "c" [] c = "F" -> "f" [] c = "G" -> "g"
      [] c = "L" -> "l" [] c = "M" -> "m" [] c = "O" -> "o" [] c = "P" -> "p"
      [] c = "V" -> "v" [] c = "W" -> "w" [] OTHER -> c

lower(s) == [i \in 1..Len(s) |-> LowerChar(s[i])]

Range(s) == {s[i] : i \in 1..Len(s)}

(***************************************************************************)
(* Numbers.                                                                *)
(***************************************************************************)
Dur(sec, num, den) == [sec |-> sec, num |-> num, den |-> den]

ZeroDur == Dur(0, 0, 1)

\* the quotient a / b of two integers, b # 0, as a mixed fraction
Quot(a, b) ==
    LET n == IF b < 0 THEN 0 - a ELSE a
        d == IF b < 0 THEN 0 - b ELSE b
    IN  Dur(n \div d, n % d, d)

DurEq(a, b) == a.sec = b.sec /\ a.num * b.den = b.num * a.den

DurPositive(a) == a.sec > 0 \/ (a.sec = 0 /\ a.num > 0)

DurIsZero(a) == a.sec = 0 /\ a.num = 0

Rounded(sec, micro) == [sec |-> sec, micro |-> micro]

ZeroSeconds == Rounded(0, 0)

Pow10(k) == CASE k = 0 -> 1 [] k = 1 -> 10 [] k = 2 -> 100 [] k = 3 -> 1000
              [] k = 4 -> 10000 [] k = 5 -> 100000 [] OTHER -> 1000000

RECURSIVE LongDiv(_, _, _)
\* the first k decimal digits of r / den (0 <= r < den) and the remainder
LongDiv(r, den, k) ==
    IF k = 0 THEN [q |-> 0, r |-> r]
    ELSE LET prev == LongDiv(r, den, k - 1)
         IN  [q |-> prev.q * 10 + (prev.r * 10) \div den, r |-> (prev.r * 10) % den]

RECURSIVE OddPart(_)
OddPart(n) == IF n > 0 /\ n % 2 = 0 THEN OddPart(n \div 2) ELSE n

RECURSIVE Gcd(_, _)
Gcd(a, b) == IF b = 0 THEN a ELSE Gcd(b, a % b)

\* num/den is a binary fraction, so a double holds it exactly
IsDyadic(num, den) == OddPart(den \div Gcd(den, num)) = 1

\* round(duration, time_precision) cutting the digits after the P-th
round_down(d, P, tieUp) == Rounded(d.sec, LongDiv(d.num, d.den, P).q * Pow10(MaxPrecision - P))

\* round(duration, time_precision): the decimal nearest to the double; an exact
\* decimal tie is broken to even when the double holds the value exactly, and
\* by the double's representation error (tieUp) when it does not
py_round(d, P, tieUp) ==
    LET L == LongDiv(d.num, d.den, P)
        last == IF P = 0 THEN d.sec ELSE L.q
        up == IF 2 * L.r > d.den THEN TRUE
              ELSE IF 2 * L.r < d.den THEN FALSE
              ELSE IF IsDyadic(d.num, d.den) THEN last % 2 = 1
              ELSE tieUp
        q == IF up THEN L.q + 1 ELSE L.q
    IN  IF q = Pow10(P) THEN Rounded(d.sec + 1, 0)
        ELSE Rounded(d.sec, q * Pow10(MaxPrecision - P))

Pad2(n) == IF n < 10 THEN "0" \o ToString(n) ELSE ToString(n)

Pad3(n) == IF n < 10 THEN "00" \o ToString(n) ELSE IF n < 100 THEN "0" \o ToString(n) ELSE ToString(n)

\* f"{secs:06.3f}" for secs = whole + micro/10^6
Fmt063(whole, micro, tieUp) ==
    LET ms == micro \div 1000
        rem == micro % 1000
        up == IF rem > 500 THEN TRUE
              ELSE IF rem < 500 THEN FALSE
              ELSE IF IsDyadic(micro, 1000000) THEN ms % 2 = 1
              ELSE tieUp
        m == IF up THEN ms + 1 ELSE ms
    IN  IF m = 1000 THEN Pad2(whole + 1) \o "." \o Pad3(0)
        ELSE Pad2(whole) \o "." \o Pad3(m)

\* _format_duration writing the hour field whatever the hours are
format_with_hours(seconds, tieUp) ==
    IF seconds.sec < 0 \/ (seconds.sec = 0 /\ seconds.micro = 0)
    THEN "00:00:00.000"
    ELSE Pad2(seconds.sec \div 3600) \o ":" \o Pad2((seconds.sec % 3600) \div 60) \o ":" \o Fmt063(seconds.sec % 60, seconds.micro, tieUp)

_format_duration(seconds, tieUp) ==
    IF seconds.sec < 0 \/ (seconds.sec = 0 /\ seconds.micro = 0)
    THEN "00:00:00.000"
    ELSE LET hours == seconds.sec \div 3600
             minutes == (seconds.sec % 3600) \div 60
             secs == seconds.sec % 60
         IN  IF hours > 0
             THEN Pad2(hours) \o ":" \o Pad2(minutes) \o ":" \o Fmt063(secs, seconds.micro, tieUp)
             ELSE Pad2(minutes) \o ":" \o Fmt063(secs, seconds.micro, tieUp)

(***************************************************************************)
(* Values: buffers, audio references, JSON records, results.               *)
(***************************************************************************)
Tensor(shape) == [isTensor |-> TRUE, shape |-> shape]

\* a value that is no tensor (None)
NoTensor == [isTensor |-> FALSE, shape |-> <<>>]

dim(w) == Len(w.shape)

Ref(t, s, keys, w, r, fp, fn, items) == [t |-> t, s |-> s, keys |-> keys, waveform |-> w, sample_rate |-> r, file_path |-> fp, filename |-> fn, items |-> items]

StrRef(p) == Ref("str", p, {}, NoTensor, 0, EmptyStr, EmptyStr, <<>>)

BufferRef(w, keys, r) == Ref("dict", EmptyStr, keys, w, r, EmptyStr, EmptyStr, <<>>)

PathDict(keys, fp, fn) == Ref("dict", EmptyStr, keys, NoTensor, 0, fp, fn, <<>>)

TensorRef(w) == Ref("tensor", EmptyStr, {}, w, 0, EmptyStr, EmptyStr, <<>>)

ListRef(items) == Ref("list", EmptyStr, {}, NoTensor, 0, EmptyStr, EmptyStr, items)

\* a value of an unsupported type (None, a number)
OtherRef == Ref("other", EmptyStr, {}, NoTensor, 0, EmptyStr, EmptyStr, <<>>)

\* the metadata record of the duration node; keys = {} is "{}"
DurMeta(keys, method, mode, rate, shape, samples, prec, incl, thr, path, size) == [keys |-> keys, method |-> method, calculation_mode |-> mode, sample_rate |-> rate, waveform_shape |-> shape, total_samples |-> samples, time_precision |-> prec, include_silence |-> incl, silence_threshold_db |-> thr, file_path |-> path, file_size_bytes |-> size]

EmptyJson == DurMeta({}, "", "", 0, <<>>, 0, 0, FALSE, 0, EmptyStr, 0)

DurResult(seconds, formatted, status, metadata, invoked) == [raised |-> FALSE, seconds |-> seconds, formatted |-> formatted, status |-> status, metadata |-> metadata, invoked |-> invoked]

\* an exception leaving the function; invoked = the backends run before it
Raised(invoked) == [raised |-> TRUE, seconds |-> ZeroSeconds, formatted |-> "", status |-> <<"raised">>, metadata |-> EmptyJson, invoked |-> invoked]

_error_response(error_message) == DurResult(ZeroSeconds, "00:00:00.000", <<"error: ", error_message>>, EmptyJson, <<>>)

WithInvoked(r, invoked) == [r EXCEPT !.invoked = invoked]

(***************************************************************************)
(* Duration of an in-memory buffer.                                        *)
(***************************************************************************)
_get_total_samples(tensor) ==
    IF ~tensor.isTensor THEN 0
    ELSE IF dim(tensor) = 1 THEN tensor.shape[1]
    ELSE IF dim(tensor) = 2 THEN tensor.shape[2]
    ELSE IF dim(tensor) = 3 THEN tensor.shape[3]
    ELSE IF dim(tensor) = 4 THEN tensor.shape[4]
    ELSE IF dim(tensor) = 0 THEN 0
    ELSE tensor.shape[dim(tensor)]

\* _calculate_duration_from_tensor taking the last dimension of a buffer of
\* rank 4, as _get_total_samples does
tensor_duration_last_dim(waveform, sample_rate) ==
    IF ~waveform.isTensor \/ dim(waveform) = 0
    THEN [raised |-> TRUE, duration |-> ZeroDur]
    ELSE LET num_samples ==
                 IF dim(waveform) = 1 THEN waveform.shape[1]
                 ELSE IF dim(waveform) = 2 THEN waveform.shape[2]
                 ELSE IF dim(waveform) = 3 THEN waveform.shape[3]
                 ELSE waveform.shape[dim(waveform)]
         IN  IF num_samples > 0 /\ sample_rate > 0
             THEN [raised |-> FALSE, duration |-> Quot(num_samples, sample_rate)]
             ELSE [raised |-> FALSE, duration |-> ZeroDur]

\* [raised, duration]: the exact duration, or the exception re-raised after
\* the fallback (numel, shape[-1]) failed as well
_calculate_duration_from_tensor(waveform, sample_rate) ==
    IF ~waveform.isTensor \/ dim(waveform) = 0
    THEN [raised |-> TRUE, duration |-> ZeroDur]
    ELSE LET num_samples ==
                 IF dim(waveform) = 1 THEN waveform.shape[1]
                 ELSE IF dim(waveform) = 2
                      THEN (IF waveform.shape[1] <= 2 THEN waveform.shape[2] ELSE waveform.shape[2])
                 ELSE IF dim(waveform) = 3 THEN waveform.shape[3]
                 ELSE IF dim(waveform) = 4 THEN waveform.shape[3]
                 ELSE waveform.shape[dim(waveform)]
         IN  IF num_samples > 0 /\ sample_rate > 0
             THEN [raised |-> FALSE, duration |-> Quot(num_samples, sample_rate)]
             ELSE [raised |-> FALSE, duration |-> ZeroDur]

(***************************************************************************)
(* The backends.  An answer is what the library or the ffprobe process     *)
(* gives for the file of the call.                                         *)
(***************************************************************************)
\* kind "json": the process exits 0 and prints JSON whose format section has a
\* duration iff hasDuration, and whose streams have the durations of streams
Answer(backend, kind, hasDuration, duration, streams, format_name) == [backend |-> backend, kind |-> kind, hasDuration |-> hasDuration, duration |-> duration, streams |-> streams, format_name |-> format_name]

\* no backend is asked
NoAnswer == Answer("none", "none", FALSE, ZeroDur, <<>>, "")

DurLess(a, b) == a.sec < b.sec \/ (a.sec = b.sec /\ a.num * b.den < b.num * a.den)

DurMax(a, b) == IF DurLess(a, b) THEN b ELSE a

RECURSIVE MaxStreamDuration(_, _)
\* for stream in data['streams']: duration = max(duration, stream_duration)
MaxStreamDuration(duration, streams) ==
    IF streams = <<>> THEN duration
    ELSE MaxStreamDuration(DurMax(duration, Head(streams)), Tail(streams))

BackendResult(status, duration, error, method) == [status |-> status, duration |-> duration, error |-> error, method |-> method]

_calculate_with_pydub(audio_path, a) ==
    IF a.kind = "ok"
    THEN BackendResult("success", a.duration, "", "pydub")
    ELSE BackendResult("error", ZeroDur, "Pydub error", "pydub")

_calculate_with_librosa(audio_path, a) ==
    IF a.kind = "ok"
    THEN BackendResult("success", a.duration, "", "librosa")
    ELSE BackendResult("error", ZeroDur, "Librosa error", "librosa")

_calculate_with_ffmpeg(audio_path, a) ==
    IF a.kind = "timeout" THEN BackendResult("error", ZeroDur, "FFprobe timeout", "ffmpeg")
    ELSE IF a.kind = "nonzero_exit" THEN BackendResult("error", ZeroDur, "FFprobe error", "ffmpeg")
    ELSE IF a.kind = "bad_json" THEN BackendResult("error", ZeroDur, "FFprobe JSON decode error", "ffmpeg")
    ELSE IF a.kind # "json" THEN BackendResult("error", ZeroDur, "FFprobe exception", "ffmpeg")
    ELSE LET duration == IF a.hasDuration THEN a.duration
                         ELSE MaxStreamDuration(ZeroDur, a.streams)
         IN  IF DurIsZero(duration)
             THEN BackendResult("error", ZeroDur, "could not determine the duration", "ffmpeg")
             ELSE BackendResult("success", duration, "", "ffmpeg")

\* a _remove_silence_duration that takes the silent half of the file away
remove_silent_half(audio_path, total_duration, threshold_db) == Dur(total_duration.sec \div 2, 0, 1)

_remove_silence_duration(audio_path, total_duration, threshold_db) == total_duration

CompressedExts == {<<".", "m", "p", "3">>, <<".", "a", "a", "c">>, <<".", "m", "4", "a">>}

LosslessExts == {<<".", "w", "a", "v">>, <<".", "f", "l", "a", "c">>}

\* _select_calculation_mode comparing the extension as it is written
select_mode_case_sensitive(audio_path) ==
    LET file_ext == splitext(audio_path)
    IN  IF file_ext \in CompressedExts /\ PYDUB_AVAILABLE THEN "fast"
        ELSE IF file_ext \in LosslessExts /\ LIBROSA_AVAILABLE THEN "accurate"
        ELSE "accurate"

_select_calculation_mode(audio_path) ==
    LET file_ext == lower(splitext(audio_path))
    IN  IF file_ext \in CompressedExts /\ PYDUB_AVAILABLE THEN "fast"
        ELSE IF file_ext \in LosslessExts /\ LIBROSA_AVAILABLE THEN "accurate"
        ELSE "accurate"

\* the if / elif / else that picks the backend of _calculate_from_file
select_backend(calc_mode) ==
    IF calc_mode = "fast" /\ PYDUB_AVAILABLE THEN "pydub"
    ELSE IF LIBROSA_AVAILABLE THEN "librosa"
    ELSE "ffprobe"

run_backend(backend, audio_path, a) ==
    IF backend = "pydub" THEN _calculate_with_pydub(audio_path, a)
    ELSE IF backend = "librosa" THEN _calculate_with_librosa(audio_path, a)
    ELSE _calculate_with_ffmpeg(audio_path, a)

FileMetaKeys == {"method", "format", "file_size_bytes", "calculation_mode", "time_precision", "include_silence", "silence_threshold_db", "file_path"}

\* rounded_duration is formatted and the success tuple returned
success_tuple(rounded_duration, metadata, invoked, tieUp) == DurResult(rounded_duration, _format_duration(rounded_duration, tieUp), <<"success">>, metadata, invoked)

\* _calculate_from_file asking ffprobe once more when the backend has failed
file_result_with_fallback(result, backend, audio_path, calc_mode, time_precision, include_silence, silence_threshold_db, e) ==
    IF result.status # "success"
    THEN WithInvoked(_error_response(result.error), <<backend, "ffprobe">>)
    ELSE success_tuple(py_round(result.duration, time_precision, e.tieUp),
                       DurMeta(FileMetaKeys, result.method, calc_mode, 0, <<>>, 0, time_precision, include_silence, silence_threshold_db, audio_path, getsize(audio_path)),
                       <<backend>>, e.tieUp)

\* _calculate_from_file once the backend has given its result
file_result(result, backend, audio_path, calc_mode, time_precision, include_silence, silence_threshold_db, e) ==
    IF result.status # "success"
    THEN WithInvoked(_error_response(result.error), <<backend>>)
    ELSE success_tuple(py_round(IF ~include_silence /\ DurPositive(result.duration)
                                THEN _remove_silence_duration(audio_path, result.duration, silence_threshold_db)
                                ELSE result.duration,
                                time_precision, e.tieUp),
                       DurMeta(FileMetaKeys, result.method, calc_mode, 0, <<>>, 0, time_precision, include_silence, silence_threshold_db, audio_path, getsize(audio_path)),
                       <<backend>>, e.tieUp)

\* _calculate_from_file once the backend is picked
file_backend(backend, audio_path, calc_mode, time_precision, include_silence, silence_threshold_db, e) == file_result(run_backend(backend, audio_path, e.answer), backend, audio_path, calc_mode, time_precision, include_silence, silence_threshold_db, e)

\* _calculate_from_file once the mode is selected
file_mode(calc_mode, audio_path, time_precision, include_silence, silence_threshold_db, e) == file_backend(select_backend(calc_mode), audio_path, calc_mode, time_precision, include_silence, silence_threshold_db, e)

\* _calculate_from_file without the check of the file size
from_file_unsized(audio_path, calculation_mode, time_precision, include_silence, silence_threshold_db, e) ==
    IF audio_path = EmptyStr THEN _error_response("audio file path not received")
    ELSE IF ~exists(audio_path) THEN _error_response("audio file not found at path")
    ELSE IF ~isfile(audio_path) THEN _error_response("path is not a file")
    ELSE file_mode(IF calculation_mode = "auto" THEN _select_calculation_mode(audio_path) ELSE calculation_mode,
                   audio_path, time_precision, include_silence, silence_threshold_db, e)

_calculate_from_file(audio_path, calculation_mode, time_precision, include_silence, silence_threshold_db, e) ==
    IF audio_path = EmptyStr THEN _error_response("audio file path not received")
    ELSE IF ~exists(audio_path) THEN _error_response("audio file not found at path")
    ELSE IF ~isfile(audio_path) THEN _error_response("path is not a file")
    ELSE IF getsize(audio_path) = 0 THEN _error_response("audio file is empty")
    ELSE file_mode(IF calculation_mode = "auto" THEN _select_calculation_mode(audio_path) ELSE calculation_mode,
                   audio_path, time_precision, include_silence, silence_threshold_db, e)

(***************************************************************************)
(* Entry point of the duration node.                                       *)
(***************************************************************************)
BufferMetaKeys == {"calculation_method", "sample_rate", "waveform_shape", "time_precision", "include_silence", "silence_threshold_db", "total_samples"}

TensorMetaKeys == {"calculation_method", "sample_rate", "waveform_shape", "time_precision", "total_samples"}

\* the buffer branches once _calculate_duration_from_tensor has returned d
buffer_result(d, waveform, sample_rate, keys, time_precision, include_silence, silence_threshold_db, e) ==
    IF d.raised THEN Raised(<<>>)
    ELSE success_tuple(py_round(d.duration, time_precision, e.tieUp),
                       DurMeta(keys, "tensor_direct", "", sample_rate, waveform.shape, _get_total_samples(waveform), time_precision, include_silence, silence_threshold_db, EmptyStr, 0),
                       <<>>, e.tieUp)

\* the branch of a dict with 'waveform' (keys given) and of a bare tensor
duration_of_buffer(waveform, sample_rate, keys, time_precision, include_silence, silence_threshold_db, e) == buffer_result(_calculate_duration_from_tensor(waveform, sample_rate), waveform, sample_rate, keys, time_precision, include_silence, silence_threshold_db, e)

\* calculate_audio_duration without its except clause: the body's outcome is
\* the caller's
uncaught_duration(body) == body

\* except Exception as e: return self._error_response(...)
catch_duration(body) == IF body.raised THEN WithInvoked(_error_response("exception"), body.invoked) ELSE body

RECURSIVE calculate_audio_duration(_, _, _, _, _, _)
calculate_audio_duration(audio, calculation_mode, time_precision, include_silence, silence_threshold_db, e) ==
    catch_duration(
        IF audio.t = "dict"
        THEN IF "waveform" \in audio.keys
             THEN duration_of_buffer(audio.waveform, IF "sample_rate" \in audio.keys THEN audio.sample_rate ELSE DefaultSampleRate, BufferMetaKeys, time_precision, include_silence, silence_threshold_db, e)
             ELSE IF "file_path" \in audio.keys
             THEN _calculate_from_file(audio.file_path, calculation_mode, time_precision, include_silence, silence_threshold_db, e)
             ELSE _error_response("unsupported audio data type")
        ELSE IF audio.t = "tensor"
        THEN duration_of_buffer(audio.waveform, DefaultSampleRate, TensorMetaKeys, time_precision, TRUE, 0, e)
        ELSE IF audio.t = "list" /\ Len(audio.items) > 0
        THEN calculate_audio_duration(audio.items[1], calculation_mode, time_precision, include_silence, silence_threshold_db, e)
        ELSE IF audio.t = "str"
        THEN _calculate_from_file(audio.s, calculation_mode, time_precision, include_silence, silence_threshold_db, e)
        ELSE _error_response("unsupported audio data type"))

(***************************************************************************)
(* The metadata node.                                                      *)
(***************************************************************************)
\* sample rate and channel count of the audio stream ffprobe reports
ProbeSampleRate == 3
ProbeChannels == 2

\* the path found, EmptyStr for None
_get_audio_path(audio_input) ==
    IF audio_input.t = "str"
    THEN IF exists(audio_input.s) THEN audio_input.s
         ELSE IF exists(join(InputDir, audio_input.s)) THEN join(InputDir, audio_input.s)
         ELSE IF exists(join(OutputDir, audio_input.s)) THEN join(OutputDir, audio_input.s)
         ELSE IF exists(join(TempDir, audio_input.s)) THEN join(TempDir, audio_input.s)
         ELSE EmptyStr
    ELSE IF audio_input.t = "dict"
    THEN LET byKey(path) == IF exists(path) THEN path
                            ELSE IF exists(join(InputDir, path)) THEN join(InputDir, path)
                            ELSE EmptyStr
             first == IF "file_path" \in audio_input.keys /\ audio_input.file_path # EmptyStr
                      THEN byKey(audio_input.file_path) ELSE EmptyStr
             second == IF "filename" \in audio_input.keys /\ audio_input.filename # EmptyStr
                       THEN byKey(audio_input.filename) ELSE EmptyStr
         IN  IF first # EmptyStr THEN first ELSE second
    ELSE EmptyStr

\* the bare except returns 0.0 (no tensor, rank 0, sample rate 0)
_get_duration_from_tensor(waveform, sample_rate) ==
    IF ~waveform.isTensor \/ dim(waveform) = 0 \/ sample_rate = 0 THEN ZeroDur
    ELSE LET num_samples ==
                 IF dim(waveform) = 1 THEN waveform.shape[1]
                 ELSE IF dim(waveform) = 2 THEN waveform.shape[2]
                 ELSE IF dim(waveform) = 3 THEN waveform.shape[3]
                 ELSE waveform.shape[dim(waveform)]
         IN  Quot(num_samples, sample_rate)

MetaJson(keys, format_name, tech_keys, duration_seconds, sample_rate, channels, total_samples, name, size_bytes) == [keys |-> keys, format_name |-> format_name, tech_keys |-> tech_keys, duration_seconds |-> duration_seconds, sample_rate |-> sample_rate, channels |-> channels, total_samples |-> total_samples, name |-> name, size_bytes |-> size_bytes]

\* "{}"
EmptyMetaJson == MetaJson({}, "", {}, ZeroDur, 0, 0, 0, EmptyStr, 0)

MetaResult(metadata, summary, format, duration, invoked) == [raised |-> FALSE, metadata |-> metadata, summary |-> summary, format |-> format, duration |-> duration, invoked |-> invoked]

MetaRaised(invoked) == [raised |-> TRUE, metadata |-> EmptyMetaJson, summary |-> <<>>, format |-> "", duration |-> ZeroDur, invoked |-> invoked]

\* the parts joined by " | "
_create_metadata_summary(metadata) ==
    (IF "file_info" \in metadata.keys THEN <<"name (size MB)">> ELSE <<>>)
    \o (IF "technical" \in metadata.keys /\ metadata.tech_keys # {}
        THEN (IF DurPositive(metadata.duration_seconds) THEN <<"Duration">> ELSE <<>>)
             \o (IF metadata.sample_rate # 0 THEN <<"Hz">> ELSE <<>>)
             \o (IF metadata.channels # 0 THEN <<"ch">> ELSE <<>>)
        ELSE <<>>)

\* ffprobe's data: [ok, format_name, hasDuration, duration, streams]; on a
\* non-zero exit or any exception the default {"format": {}, "streams": []}
_get_ffprobe_metadata(audio_path, a) ==
    IF a.kind \in {"json", "bad_number"}
    THEN [format_name |-> a.format_name, hasDuration |-> a.hasDuration, badNumber |-> a.kind = "bad_number", duration |-> a.duration, streams |-> a.streams]
    ELSE [format_name |-> "", hasDuration |-> FALSE, badNumber |-> FALSE, duration |-> ZeroDur, streams |-> <<>>]

FormatTechKeys == {"duration_seconds", "bitrate_bps", "size_bytes"}

StreamTechKeys == {"sample_rate", "channels", "codec", "bits_per_sample"}

\* [raised, tech_keys, duration_seconds, sample_rate, channels]
_extract_technical_metadata(ffprobe_data) ==
    IF ffprobe_data.badNumber
    THEN [raised |-> TRUE, tech_keys |-> {}, duration_seconds |-> ZeroDur, sample_rate |-> 0, channels |-> 0]
    ELSE [raised |-> FALSE,
          tech_keys |-> FormatTechKeys \cup (IF ffprobe_data.streams # <<>> THEN StreamTechKeys ELSE {}),
          duration_seconds |-> IF ffprobe_data.hasDuration THEN ffprobe_data.duration ELSE ZeroDur,
          sample_rate |-> IF ffprobe_data.streams # <<>> THEN ProbeSampleRate ELSE 0,
          channels |-> IF ffprobe_data.streams # <<>> THEN ProbeChannels ELSE 0]

\* [raised, metadata, invoked], once ffprobe_data is projected to tech
metadata_sections(audio_path, extract_format, extract_technical, tagged, ffprobe_data, tech) ==
    IF (extract_format \/ extract_technical) /\ extract_technical /\ tech.raised
    THEN [raised |-> TRUE, metadata |-> EmptyMetaJson, invoked |-> <<"ffprobe">>]
    ELSE [raised |-> FALSE,
          metadata |-> MetaJson({"file_info"}
                                  \cup (IF extract_format THEN {"format"} ELSE {})
                                  \cup (IF extract_technical THEN {"technical"} ELSE {})
                                  \cup (IF tagged THEN {"tags"} ELSE {}),
                                IF extract_format THEN ffprobe_data.format_name ELSE "",
                                IF extract_technical THEN tech.tech_keys ELSE {},
                                IF extract_technical THEN tech.duration_seconds ELSE ZeroDur,
                                IF extract_technical THEN tech.sample_rate ELSE 0,
                                IF extract_technical THEN tech.channels ELSE 0,
                                0, basename(audio_path), getsize(audio_path)),
          invoked |-> (IF extract_format \/ extract_technical THEN <<"ffprobe">> ELSE <<>>) \o (IF tagged THEN <<"mediainfo">> ELSE <<>>)]

\* once ffprobe has answered
metadata_of_probe(audio_path, extract_format, extract_technical, tagged, ffprobe_data) == metadata_sections(audio_path, extract_format, extract_technical, tagged, ffprobe_data, _extract_technical_metadata(ffprobe_data))

\* [raised, metadata, invoked]; ffprobe runs if a section of its data is asked
\* for, mediainfo if the tags are and pydub is there
_extract_all_metadata(audio_path, extract_format, extract_technical, extract_tags, a) == metadata_of_probe(audio_path, extract_format, extract_technical, extract_tags /\ PYDUB_AVAILABLE, _get_ffprobe_metadata(audio_path, a))

RECURSIVE Product(_)
\* waveform.nelement()
Product(shape) == IF shape = <<>> THEN 1 ELSE Head(shape) * Product(Tail(shape))

BufferTechKeys == {"duration_seconds", "sample_rate", "channels", "total_samples"}

\* the summary is made and the tuple returned
metadata_tuple(metadata, format, duration, invoked) == MetaResult(metadata, _create_metadata_summary(metadata), format, duration, invoked)

\* the branch of a dict with 'waveform', once the duration is computed
buffer_metadata(waveform, sample_rate, duration) ==
    IF ~waveform.isTensor THEN MetaRaised(<<>>)
    ELSE metadata_tuple(MetaJson({"format", "technical", "file_info"}, "tensor", BufferTechKeys, duration, sample_rate,
                                 IF dim(waveform) >= 2 /\ waveform.shape[2] <= 2 THEN waveform.shape[2] ELSE 1,
                                 IF dim(waveform) > 0 THEN waveform.shape[dim(waveform)] ELSE 0,
                                 <<"audio_tensor">>, ElementSize * Product(waveform.shape)),
                        "tensor", duration, <<>>)

\* the path branch, once _extract_all_metadata has returned m
file_metadata_tuple(m) ==
    IF m.raised THEN MetaRaised(m.invoked)
    ELSE metadata_tuple(m.metadata,
                        IF "format" \in m.metadata.keys /\ m.metadata.format_name # "" THEN m.metadata.format_name ELSE "unknown",
                        IF "technical" \in m.metadata.keys THEN m.metadata.duration_seconds ELSE ZeroDur,
                        m.invoked)

\* the path branch, once _get_audio_path has returned audio_path
file_metadata(audio_path, extract_format, extract_technical, extract_tags, a) ==
    IF audio_path = EmptyStr \/ ~exists(audio_path)
    THEN MetaResult(EmptyMetaJson, <<"Error: ", "Audio file not found">>, "unknown", ZeroDur, <<>>)
    ELSE file_metadata_tuple(_extract_all_metadata(audio_path, extract_format, extract_technical, extract_tags, a))

\* except Exception as e: return ("{}", f"Error: {str(e)}", "error", 0.0)
catch_metadata(body) == IF body.raised THEN MetaResult(EmptyMetaJson, <<"Error: ", "exception">>, "error", ZeroDur, body.invoked) ELSE body

extract_audio_metadata(audio, extract_format, extract_technical, extract_tags, a) ==
    catch_metadata(
        IF audio.t = "dict" /\ "waveform" \in audio.keys
        THEN buffer_metadata(audio.waveform,
                             IF "sample_rate" \in audio.keys THEN audio.sample_rate ELSE DefaultSampleRate,
                             _get_duration_from_tensor(audio.waveform, IF "sample_rate" \in audio.keys THEN audio.sample_rate ELSE DefaultSampleRate))
        ELSE file_metadata(_get_audio_path(audio), extract_format, extract_technical, extract_tags, a))

(***************************************************************************)
(* The load node.                                                          *)
(***************************************************************************)
\* a str argument, or a value that is no str (isStr = FALSE)
Str(s) == [isStr |-> TRUE, s |-> s]

NotAStr == [isStr |-> FALSE, s |-> EmptyStr]

LoadResult(audio, file_path) == [raised |-> FALSE, audio |-> audio, file_path |-> file_path]

LoadRaised == [raised |-> TRUE, audio |-> OtherRef, file_path |-> EmptyStr]

\* the try block once full_path is joined
load_path(full_path, audio_file) ==
    IF ~exists(full_path) THEN LoadRaised
    ELSE LoadResult(PathDict({"file_path", "filename"}, full_path, audio_file), full_path)

\* except Exception as e: return ({"file_path": "", "filename": ""}, "")
catch_load(body) == IF body.raised THEN LoadResult(PathDict({"file_path", "filename"}, EmptyStr, EmptyStr), EmptyStr) ELSE body

\* os.path.join raises TypeError on a value that is no str
load_audio(audio_file) == catch_load(IF ~audio_file.isStr THEN LoadRaised ELSE load_path(join(InputDir, audio_file.s), audio_file.s))

(***************************************************************************)
(* The batch node.                                                         *)
(***************************************************************************)
\* the characters of the model's paths and patterns in code point order
Alphabet == <<" ", "*", ",", ".", "/", "3", "4", "?", "M", "P", "a", "b", "d", "g", "i", "m", "o", "p", "s", "t", "v", "w", "x">>

Code(c) == CHOOSE i \in 1..Len(Alphabet) : Alphabet[i] = c

RECURSIVE StrLess(_, _)
\* a < b for str
StrLess(a, b) ==
    IF b = <<>> THEN FALSE
    ELSE IF a = <<>> THEN TRUE
    ELSE IF Head(a) = Head(b) THEN StrLess(Tail(a), Tail(b))
    ELSE Code(Head(a)) < Code(Head(b))

RECURSIVE sorted(_)
\* sorted(list(set(...))) of a set of str
sorted(S) ==
    IF S = {} THEN <<>>
    ELSE LET least == CHOOSE x \in S : \A y \in S \ {x} : StrLess(x, y)
         IN  <<least>> \o sorted(S \ {least})

RECURSIVE split(_, _)
\* s.split(sep)
split(s, sep) ==
    LET I == {i \in 1..Len(s) : s[i] = sep}
    IN  IF I = {} THEN <<s>>
        ELSE LET i == CHOOSE k \in I : \A j \in I : k <= j
             IN  <<SubSeq(s, 1, i - 1)>> \o split(SubSeq(s, i + 1, Len(s)), sep)

RECURSIVE strip(_)
strip(s) ==
    IF s # <<>> /\ Head(s) = " " THEN strip(Tail(s))
    ELSE IF s # <<>> /\ s[Len(s)] = " " THEN strip(SubSeq(s, 1, Len(s) - 1))
    ELSE s

RECURSIVE fnmatch(_, _)
\* fnmatch.fnmatchcase(name, pat) for patterns of literals, * and ?
fnmatch(name, pat) ==
    IF pat = <<>> THEN name = <<>>
    ELSE IF Head(pat) = "*" THEN fnmatch(name, Tail(pat)) \/ (name # <<>> /\ fnmatch(Tail(name), pat))
    ELSE IF name = <<>> THEN FALSE
    ELSE (Head(pat) = "?" \/ Head(pat) = Head(name)) /\ fnmatch(Tail(name), Tail(pat))

\* os.path.dirname(p)
dirname(p) == SubSeq(p, 1, LastIndexOf(p, "/") - 1)

\* the entries of a directory
listdir(directory) == {p \in FsPaths : exists(p) /\ dirname(p) = StripSlash(directory)}

\* patterns = [p.strip() for p in pattern.split(',')]
strip_all(parts) == {strip(parts[i]) : i \in 1..Len(parts)}

\* os.walk gives the files of each directory; glob gives every entry whose name
\* does not start with a dot unless the pattern does, and, for a pattern without
\* wildcard, the path itself when it exists
find_patterns(directory, patterns, recursive) ==
    sorted({join(directory, basename(p)) : p \in {x \in listdir(directory) :
                IF recursive
                THEN isfile(x) /\ \E pat \in patterns : fnmatch(basename(x), pat)
                ELSE \E pat \in patterns : fnmatch(basename(x), pat) /\ (Head(basename(x)) = "." => (pat # <<>> /\ Head(pat) = "."))}}
           \cup (IF ~recursive /\ <<>> \in patterns /\ exists(join(directory, <<>>)) THEN {join(directory, <<>>)} ELSE {}))

_find_audio_files(directory, pattern, recursive) == find_patterns(directory, strip_all(split(pattern, ",")), recursive)

\* the default arguments of the two nodes as _process_single_file calls them
FileRecord(file, status, has_duration, duration_seconds, duration_formatted, has_metadata, metadata, invoked) == [file |-> file, filename |-> basename(file), size_bytes |-> getsize(file), status |-> status, has_duration |-> has_duration, duration_seconds |-> duration_seconds, duration_formatted |-> duration_formatted, has_metadata |-> has_metadata, metadata |-> metadata, invoked |-> invoked]

\* the record of one file, given what the two nodes returned
file_record(audio_file, with_duration, with_metadata, duration_result, meta_result) ==
    FileRecord(audio_file, "success",
               with_duration,
               IF with_duration THEN duration_result.seconds ELSE ZeroSeconds,
               IF with_duration THEN duration_result.formatted ELSE "",
               with_metadata,
               IF with_metadata THEN meta_result.metadata ELSE EmptyMetaJson,
               (IF with_duration THEN duration_result.invoked ELSE <<>>) \o (IF with_metadata THEN meta_result.invoked ELSE <<>>))

\* an exception leaving _process_single_file
FileRaised(file) == [file |-> file, filename |-> EmptyStr, size_bytes |-> 0, status |-> "raised", has_duration |-> FALSE, duration_seconds |-> ZeroSeconds, duration_formatted |-> "", has_metadata |-> FALSE, metadata |-> EmptyMetaJson, invoked |-> <<>>]

\* {"file": audio_file, "error": str(e), "status": "failed"}
FailedRecord(file) == [FileRaised(file) EXCEPT !.status = "failed"]

\* the file was removed after _find_audio_files has listed it
Gone == Answer("none", "gone", FALSE, ZeroDur, <<>>, "")

\* answers[1]: of the duration backend, answers[2]: of the metadata probe;
\* os.path.getsize raises FileNotFoundError when the file is gone
_process_single_file(audio_file, operation, answers, tieUp) ==
    IF answers[1] = Gone THEN FileRaised(audio_file)
    ELSE
    file_record(audio_file, operation \in {"duration", "both"}, operation \in {"metadata", "both"},
                calculate_audio_duration(PathDict({"file_path"}, audio_file, EmptyStr), "auto", DefaultPrecision, TRUE, DefaultThresholdDb, [answer |-> answers[1], tieUp |-> tieUp]),
                extract_audio_metadata(PathDict({"file_path"}, audio_file, EmptyStr), TRUE, TRUE, FALSE, answers[2]))

AddSeconds(a, b) ==
    LET micro == a.micro + b.micro
    IN  IF micro >= 1000000 THEN Rounded(a.sec + b.sec + 1, micro - 1000000) ELSE Rounded(a.sec + b.sec, micro)

RECURSIVE SumSeconds(_)
\* sum(r.get("duration_seconds", 0) for r in results if "duration_seconds" in r)
SumSeconds(results) ==
    IF results = <<>> THEN ZeroSeconds
    ELSE IF Head(results).has_duration THEN AddSeconds(Head(results).duration_seconds, SumSeconds(Tail(results)))
    ELSE SumSeconds(Tail(results))

\* the summary line without the branch of the hours
summary_line_without_hours(successful, total, with_duration, total_duration) ==
    IF with_duration
    THEN [kind |-> "processed", successful |-> successful, total |-> total, has_duration |-> TRUE, total_duration |-> total_duration,
          unit |-> IF total_duration.sec < 60 THEN "s" ELSE "m"]
    ELSE [kind |-> "processed", successful |-> successful, total |-> total, has_duration |-> FALSE, total_duration |-> ZeroSeconds, unit |-> ""]

\* [successful, total, has_duration, total_duration, unit]: "Processed X/N files"
\* and, for duration and both, " | Total duration: <value><unit>"
summary_line(successful, total, with_duration, total_duration) ==
    IF with_duration
    THEN [kind |-> "processed", successful |-> successful, total |-> total, has_duration |-> TRUE, total_duration |-> total_duration,
          unit |-> IF total_duration.sec < 60 THEN "s" ELSE IF total_duration.sec < 3600 THEN "m" ELSE "h"]
    ELSE [kind |-> "processed", successful |-> successful, total |-> total, has_duration |-> FALSE, total_duration |-> ZeroSeconds, unit |-> ""]

\* _create_batch_summary counting every record as a success
summary_counting_all(results, operation) == summary_line(Len(results), Len(results), operation \in {"duration", "both"}, SumSeconds(results))

_create_batch_summary(results, operation) == summary_line(Cardinality({i \in 1..Len(results) : results[i].status = "success"}), Len(results), operation \in {"duration", "both"}, SumSeconds(results))

BatchResult(results, summary, file_list) == [raised |-> FALSE, results |-> results, summary |-> summary, file_list |-> file_list]

BatchMessage(kind) == [kind |-> kind, successful |-> 0, total |-> 0, has_duration |-> FALSE, total_duration |-> ZeroSeconds, unit |-> ""]

\* the tuple returned once every file is processed
batch_tuple(results, operation, audio_files) == BatchResult(results, _create_batch_summary(results, operation), audio_files)

\* except Exception as e: results.append({..., "status": "failed"})
catch_file(body) == IF body.status = "raised" THEN FailedRecord(body.file) ELSE body

\* the loop over the files found
batch_of_files(audio_files, operation, answers, tieUp) ==
    IF audio_files = <<>>
    THEN BatchResult(<<>>, BatchMessage("No audio files found"), <<>>)
    ELSE batch_tuple([i \in 1..Len(audio_files) |-> catch_file(_process_single_file(audio_files[i], operation, IF audio_files[i] \in DOMAIN answers THEN answers[audio_files[i]] ELSE <<NoAnswer, NoAnswer>>, tieUp))],
                     operation, audio_files)

BatchRaised == [raised |-> TRUE, results |-> <<>>, summary |-> BatchMessage("raised"), file_list |-> <<>>]

\* except Exception as e: return ("{}", f"Error: {str(e)}", "[]")
catch_batch(body) == IF body.raised THEN BatchResult(<<>>, BatchMessage("Error: exception"), <<>>) ELSE body

\* answers: for each file found, the answers of its two calls; pattern.split
\* raises AttributeError on a value that is no str
process_audio_batch(directory_path, file_pattern, operation, recursive, answers, tieUp) ==
    catch_batch(
        IF directory_path = EmptyStr \/ ~isdir(directory_path)
        THEN BatchResult(<<>>, BatchMessage("Error: Directory not found"), <<>>)
        ELSE IF ~file_pattern.isStr
        THEN BatchRaised
        ELSE batch_of_files(_find_audio_files(directory_path, file_pattern.s, recursive), operation, answers, tieUp))

(***************************************************************************)
(* Inputs of the calls.                                                    *)
(***************************************************************************)
Modes == {"accurate", "fast", "auto"}

\* <<time_precision, include_silence, silence_threshold_db>>
DurationOptions == {<<DefaultPrecision, TRUE, DefaultThresholdDb>>, <<0, FALSE, -20>>, <<MaxPrecision, TRUE, DefaultThresholdDb>>, <<MaxPrecision, FALSE, DefaultThresholdDb>>}

D5_5 == Dur(5, 1, 2)
D59_9996 == Dur(59, 9996, 10000)
D3661_001 == Dur(3661, 1, 1000)
DMinus1_5 == Dur(-2, 1, 2)

PydubAnswers == {Answer("pydub", "ok", FALSE, d, <<>>, "") : d \in {ZeroDur, D5_5, D3661_001}} \cup {Answer("pydub", "exception", FALSE, ZeroDur, <<>>, "")}

LibrosaAnswers == {Answer("librosa", "ok", FALSE, d, <<>>, "") : d \in {D5_5, D59_9996}} \cup {Answer("librosa", "exception", FALSE, ZeroDur, <<>>, "")}

FfprobeFailures == {Answer("ffprobe", k, FALSE, ZeroDur, <<>>, "") : k \in {"timeout", "nonzero_exit", "bad_json", "bad_number"}}

FfprobeJson == {Answer("ffprobe", "json", TRUE, d, <<D5_5>>, "mp3") : d \in {ZeroDur, DMinus1_5, D59_9996}} \cup {Answer("ffprobe", "json", FALSE, ZeroDur, st, "") : st \in {<<>>, <<DMinus1_5>>, <<D5_5, D3661_001>>}}

FfprobeAnswers == FfprobeFailures \cup FfprobeJson

\* the answers the backend of a duration call can give
AnswersOf(invoked) ==
    IF "pydub" \in Range(invoked) THEN PydubAnswers
    ELSE IF "librosa" \in Range(invoked) THEN LibrosaAnswers
    ELSE IF "ffprobe" \in Range(invoked) THEN FfprobeAnswers
    ELSE {NoAnswer}

\* the answers ffprobe can give to the metadata node
ProbeAnswersOf(invoked) ==
    IF "ffprobe" \in Range(invoked)
    THEN FfprobeFailures \cup {Answer("ffprobe", "json", TRUE, D59_9996, <<D5_5>>, "mp3"), Answer("ffprobe", "json", FALSE, ZeroDur, <<>>, "")}
    ELSE {NoAnswer}

CallPaths == {EmptyStr, FileA, FileB, FileD, NameA, InputDir}

MainShapes == {<<4>>, <<2, 6>>, <<>>}

MainRates == {0, MaxRate}

Buffers == {BufferRef(Tensor(sh), {"waveform", "sample_rate"}, r) : sh \in MainShapes, r \in MainRates} \cup {BufferRef(Tensor(<<1, 2, 8>>), {"waveform"}, 0), BufferRef(NoTensor, {"waveform", "sample_rate"}, MaxRate)}

PathDicts == {PathDict({"file_path"}, p, EmptyStr) : p \in {EmptyStr, FileA, FileB}} \cup {PathDict({"file_path", "filename"}, FileA, NameA), PathDict({"file_path", "filename"}, EmptyStr, EmptyStr), PathDict({"filename"}, EmptyStr, NameA), PathDict({}, EmptyStr, EmptyStr)}

\* a dict with a buffer and a path
MixedDict == Ref("dict", EmptyStr, {"waveform", "sample_rate", "file_path"}, Tensor(<<4>>), MaxRate, FileA, EmptyStr, <<>>)

BaseRefs == {StrRef(p) : p \in CallPaths} \cup Buffers \cup PathDicts \cup {MixedDict, TensorRef(Tensor(<<1, 2, 8>>)), TensorRef(Tensor(<<>>)), OtherRef}

\* the references that the lists of the model wrap
Wrapped == {StrRef(FileA), StrRef(EmptyStr), PathDict({"file_path"}, FileB, EmptyStr), BufferRef(Tensor(<<2, 6>>), {"waveform", "sample_rate"}, MaxRate), OtherRef}

Lists == {ListRef(<<>>), ListRef(<<StrRef(FileB), StrRef(FileA)>>), ListRef(<<ListRef(<<StrRef(FileA)>>)>>)} \cup {ListRef(<<x>>) : x \in Wrapped}

AudioRefs == BaseRefs \cup Lists

AudioFiles == {Str(NameA), Str(<<"b", ".", "w", "a", "v">>), Str(EmptyStr), Str(FileA), NotAStr}

Directories == {EmptyStr, InputDir, OutputDir, FileB}

Patterns == {Str(<<"*", ".", "M", "P", "3", ",", " ", "*", ".", "w", "a", "v">>), Str(<<"*", ".", "w", "a", "v", ",", "b", "*">>), Str(<<"*">>), Str(<<"*", ".", "m", "p", "3", ",">>), NotAStr}

Operations == {"duration", "metadata", "both"}

NoCall == [op |-> "none"]

NoResult == [raised |-> FALSE]

(***************************************************************************)
(* The actions.                                                            *)
(***************************************************************************)
Init ==
    /\ fs \in FsStates
    /\ PYDUB_AVAILABLE \in BOOLEAN
    /\ LIBROSA_AVAILABLE \in BOOLEAN
    /\ pc = "idle"
    /\ call = NoCall
    /\ env = NoAnswer
    /\ ret = NoResult

\* an entry point that switches pydub off as it returns
ReturnedSwitchingOff(c, e, r) ==
    /\ pc' = "returned"
    /\ call' = c
    /\ env' = e
    /\ ret' = r
    /\ PYDUB_AVAILABLE' = FALSE
    /\ UNCHANGED <<fs, LIBROSA_AVAILABLE>>

Returned(c, e, r) ==
    /\ pc' = "returned"
    /\ call' = c
    /\ env' = e
    /\ ret' = r
    /\ UNCHANGED <<fs, PYDUB_AVAILABLE, LIBROSA_AVAILABLE>>

\* the host calls the duration node
CallDuration ==
    /\ pc = "idle"
    /\ \E audio \in AudioRefs, mode \in Modes :
        LET probe == calculate_audio_duration(audio, mode, DefaultPrecision, TRUE, DefaultThresholdDb, [answer |-> NoAnswer, tieUp |-> FALSE])
        IN  \E a \in AnswersOf(probe.invoked), opt \in DurationOptions, tieUp \in BOOLEAN :
                Returned([op |-> "duration", audio |-> audio, calculation_mode |-> mode, time_precision |-> opt[1], include_silence |-> opt[2], silence_threshold_db |-> opt[3]],
                         a,
                         calculate_audio_duration(audio, mode, opt[1], opt[2], opt[3], [answer |-> a, tieUp |-> tieUp]))

\* the host calls the metadata node
CallMetadata ==
    /\ pc = "idle"
    /\ \E audio \in AudioRefs, extract_format \in BOOLEAN, extract_technical \in BOOLEAN, extract_tags \in BOOLEAN :
        LET probe == extract_audio_metadata(audio, extract_format, extract_technical, extract_tags, NoAnswer)
        IN  \E a \in ProbeAnswersOf(probe.invoked) :
                Returned([op |-> "metadata", audio |-> audio, extract_format |-> extract_format, extract_technical |-> extract_technical, extract_tags |-> extract_tags],
                         a,
                         extract_audio_metadata(audio, extract_format, extract_technical, extract_tags, a))

\* the host calls the load node
CallLoad ==
    /\ pc = "idle"
    /\ \E audio_file \in AudioFiles :
        Returned([op |-> "load", audio_file |-> audio_file], NoAnswer, load_audio(audio_file))

\* what the backends of a file answer in a scenario
AnswerOfBackends(backends, scenario) ==
    IF scenario = "good"
    THEN <<IF "pydub" \in Range(backends) THEN Answer("pydub", "ok", FALSE, D5_5, <<>>, "")
           ELSE IF "librosa" \in Range(backends) THEN Answer("librosa", "ok", FALSE, D59_9996, <<>>, "")
           ELSE IF "ffprobe" \in Range(backends) THEN Answer("ffprobe", "json", TRUE, D3661_001, <<D5_5>>, "mp3")
           ELSE NoAnswer,
           Answer("ffprobe", "json", TRUE, D5_5, <<D5_5>>, "mp3")>>
    ELSE IF scenario = "gone"
    THEN <<Gone, Gone>>
    ELSE <<IF backends = <<>> THEN NoAnswer ELSE Answer(backends[1], "exception", FALSE, ZeroDur, <<>>, ""),
           Answer("ffprobe", "nonzero_exit", FALSE, ZeroDur, <<>>, "")>>

\* what the backends answer for one file of a batch
BatchAnswer(file, scenario) == AnswerOfBackends(calculate_audio_duration(PathDict({"file_path"}, file, EmptyStr), "auto", DefaultPrecision, TRUE, DefaultThresholdDb, [answer |-> NoAnswer, tieUp |-> FALSE]).invoked, scenario)

\* every backend answers well, or for one file the backends fail or the file
\* is gone when its turn comes
Scenarios(files) == {[f \in files |-> "good"]} \cup {[f \in files |-> IF f = g THEN k ELSE "good"] : g \in files, k \in {"bad", "gone"}}

\* the batch node returns, the backends answering as in answers
ReturnedBatch(c, answers) == Returned(c, answers, process_audio_batch(c.directory_path, c.file_pattern, c.operation, c.recursive, answers, FALSE))

\* the batch node runs over files
BatchOver(c, files) == \E scenario \in Scenarios(files) : ReturnedBatch(c, [f \in files |-> BatchAnswer(f, scenario[f])])

\* the host calls the batch node
CallBatch ==
    /\ pc = "idle"
    /\ \E directory_path \in Directories, file_pattern \in Patterns, operation \in Operations, recursive \in BOOLEAN :
        BatchOver([op |-> "batch", directory_path |-> directory_path, file_pattern |-> file_pattern, operation |-> operation, recursive |-> recursive],
                  Range(process_audio_batch(directory_path, file_pattern, operation, recursive, <<>>, FALSE).file_list))

\* the host takes the tuple
Consume ==
    /\ pc = "returned"
    /\ pc' = "idle"
    /\ call' = NoCall
    /\ env' = NoAnswer
    /\ ret' = NoResult
    /\ UNCHANGED <<fs, PYDUB_AVAILABLE, LIBROSA_AVAILABLE>>

\* something outside the program changes a file between two calls
FsChange ==
    /\ pc = "idle"
    /\ \E f \in FsStates \ {fs} : fs' = f
    /\ UNCHANGED <<PYDUB_AVAILABLE, LIBROSA_AVAILABLE, pc, call, env, ret>>

Next == CallDuration \/ CallMetadata \/ CallLoad \/ CallBatch \/ Consume \/ FsChange

Spec == Init /\ [][Next]_vars

(***************************************************************************)
(* _calculate_duration_from_tensor and _format_duration on their own, over *)
(* a wider range of inputs than the calls of the nodes give them.          *)
(***************************************************************************)
\* largest size of a dimension of a buffer
MaxDim == 3
\* largest rank of a buffer
MaxRank == 5

\* the shapes of rank 1..MaxRank
WideShapes == UNION {[1..k -> 1..MaxDim] : k \in 1..MaxRank}

WideRates == 1..MaxRate \cup {DefaultSampleRate}

\* whole seconds and microseconds of the values formatted
FormatSecs == {0, 1, 5, 59, 60, 61, 3599, 3600, 3661, 7325, 86399, 359999}

FormatMicros == {0, 1, 400, 500, 1500, 2500, 500000, 999499, 999500, 999999}

FormatInputs == {Rounded(sec, micro) : sec \in FormatSecs, micro \in FormatMicros} \cup {Rounded(-2, 500000)}

InitPure ==
    /\ fs = AllFiles
    /\ PYDUB_AVAILABLE = TRUE
    /\ LIBROSA_AVAILABLE = TRUE
    /\ pc = "idle"
    /\ call = NoCall
    /\ env = NoAnswer
    /\ ret = NoResult

\* _calculate_duration_from_tensor is applied to a buffer
ApplyTensor ==
    /\ pc = "idle"
    /\ \E shape \in WideShapes, sample_rate \in WideRates :
        Returned([op |-> "tensor", waveform |-> Tensor(shape), sample_rate |-> sample_rate], NoAnswer,
                 _calculate_duration_from_tensor(Tensor(shape), sample_rate))

\* _format_duration is applied to a rounded duration
ApplyFormat ==
    /\ pc = "idle"
    /\ \E seconds \in FormatInputs, tieUp \in BOOLEAN :
        Returned([op |-> "format", seconds |-> seconds], [tieUp |-> tieUp],
                 [raised |-> FALSE, formatted |-> _format_duration(seconds, tieUp)])

NextTensor == ApplyTensor \/ Consume

SpecTensor == InitPure /\ [][NextTensor]_vars

NextFormat == ApplyFormat \/ Consume

SpecFormat == InitPure /\ [][NextFormat]_vars

(***************************************************************************)
(* The duration node at every precision.                                   *)
(***************************************************************************)
\* largest number of samples of the buffers rounded
MaxSamples == 7

PreciseRefs == {BufferRef(Tensor(<<n>>), {"waveform", "sample_rate"}, r) : n \in 1..MaxSamples, r \in 1..MaxRate} \cup {StrRef(FileB), PathDict({"file_path"}, FileA, EmptyStr)}

\* the host calls the duration node with each time_precision of 0..6
CallDurationPrecise ==
    /\ pc = "idle"
    /\ \E audio \in PreciseRefs, time_precision \in 0..MaxPrecision, tieUp \in BOOLEAN :
        \E a \in AnswersOf(calculate_audio_duration(audio, "auto", time_precision, TRUE, DefaultThresholdDb, [answer |-> NoAnswer, tieUp |-> FALSE]).invoked) :
            Returned([op |-> "duration", audio |-> audio, calculation_mode |-> "auto", time_precision |-> time_precision, include_silence |-> TRUE, silence_threshold_db |-> DefaultThresholdDb],
                     a,
                     calculate_audio_duration(audio, "auto", time_precision, TRUE, DefaultThresholdDb, [answer |-> a, tieUp |-> tieUp]))

NextRound == CallDurationPrecise \/ Consume

SpecRound == InitPure /\ [][NextRound]_vars

\* the host calls the duration node with a buffer of any rank of 1..MaxRank
CallDurationWide ==
    /\ pc = "idle"
    /\ \E shape \in WideShapes, sample_rate \in 1..MaxRate, time_precision \in {DefaultPrecision, MaxPrecision}, tieUp \in BOOLEAN :
        Returned([op |-> "duration", audio |-> BufferRef(Tensor(shape), {"waveform", "sample_rate"}, sample_rate), calculation_mode |-> "auto", time_precision |-> time_precision, include_silence |-> TRUE, silence_threshold_db |-> DefaultThresholdDb],
                 NoAnswer,
                 calculate_audio_duration(BufferRef(Tensor(shape), {"waveform", "sample_rate"}, sample_rate), "auto", time_precision, TRUE, DefaultThresholdDb, [answer |-> NoAnswer, tieUp |-> tieUp]))

NextWide == CallDurationWide \/ Consume

SpecWide == InitPure /\ [][NextWide]_vars

\* the sample rates the two duration functions are compared on: negative,
\* zero and positive
CompareRates == {0 - MaxRate, 0 - 1} \cup (0..MaxRate)

\* both nodes compute the duration of the same buffer at the same rate
ApplyBoth ==
    /\ pc = "idle"
    /\ \E shape \in WideShapes, sample_rate \in CompareRates :
        Returned([op |-> "compare", waveform |-> Tensor(shape), sample_rate |-> sample_rate], NoAnswer,
                 [raised |-> FALSE,
                  duration_node |-> _calculate_duration_from_tensor(Tensor(shape), sample_rate),
                  metadata_node |-> _get_duration_from_tensor(Tensor(shape), sample_rate)])

NextCompare == ApplyBoth \/ Consume

SpecCompare == InitPure /\ [][NextCompare]_vars

(***************************************************************************)
(* Loading the package: __init__.py probes its dependencies and imports    *)
(* the module of the nodes.  A probe record p says what the interpreter    *)
(* finds: comfy, numpy, pydub, librosa, soundfile importable or not, the   *)
(* outcome of running "ffmpeg -version", and whether the module of the     *)
(* nodes is found under the name __init__.py imports.                      *)
(***************************************************************************)
NodeNames == {"DVA_Load_Audio_File", "DVA_Audio_Duration_Calculator", "DVA_Audio_Metadata_Extractor", "DVA_Audio_Batch_Processor"}

\* the two mappings of the module of the nodes (display names shortened)
NODE_CLASS_MAPPINGS == [k \in NodeNames |-> [class |-> k]]

NODE_DISPLAY_NAME_MAPPINGS ==
    [k \in NodeNames |->
        CASE k = "DVA_Load_Audio_File" -> "DVA Audio - load"
          [] k = "DVA_Audio_Duration_Calculator" -> "DVA Audio - duration"
          [] k = "DVA_Audio_Metadata_Extractor" -> "DVA Audio - metadata"
          [] OTHER -> "DVA Audio - batch"]

NoMappings == [k \in {} |-> ""]

FfmpegOutcomes == {"ok", "failing", "timeout", "absent"}

Probes == [comfy : BOOLEAN, numpy : BOOLEAN, pydub : BOOLEAN, librosa : BOOLEAN, soundfile : BOOLEAN, ffmpeg : FfmpegOutcomes, node_module : BOOLEAN]

\* an ffmpeg probe that lets FileNotFoundError through
probe_ffmpeg_uncaught(outcome) == [raised |-> outcome = "absent", flag |-> outcome = "ok"]

\* subprocess.run(['ffmpeg', '-version'], timeout=5): the flag is set on exit
\* code 0; TimeoutExpired and FileNotFoundError are caught
probe_ffmpeg(outcome) == [raised |-> FALSE, flag |-> outcome = "ok"]

\* try: import x; DEPENDENCIES[x] = True; except ImportError: warning
probe_import(importable) == importable

\* importing the module of the nodes: numpy and the host modules are imported
\* unconditionally, pydub and librosa under try/except ImportError
import_nodes(p) ==
    IF ~p.node_module \/ ~p.numpy \/ ~p.comfy
    THEN [raised |-> TRUE, PYDUB_AVAILABLE |-> FALSE, LIBROSA_AVAILABLE |-> FALSE, classes |-> NoMappings, names |-> NoMappings]
    ELSE [raised |-> FALSE, PYDUB_AVAILABLE |-> p.pydub, LIBROSA_AVAILABLE |-> p.librosa, classes |-> NODE_CLASS_MAPPINGS, names |-> NODE_DISPLAY_NAME_MAPPINGS]

PackageRaised == [raised |-> TRUE, DEPENDENCIES |-> [numpy |-> FALSE, pydub |-> FALSE, librosa |-> FALSE, soundfile |-> FALSE, ffmpeg |-> FALSE], NODE_CLASS_MAPPINGS |-> NoMappings, NODE_DISPLAY_NAME_MAPPINGS |-> NoMappings, defined |-> FALSE]

\* the try block that imports the nodes: ImportError (also the one raised for
\* empty mappings) and any other exception leave both mappings empty
load_mappings(nodes, dependencies) ==
    IF nodes.raised \/ DOMAIN nodes.classes = {}
    THEN [raised |-> FALSE, DEPENDENCIES |-> dependencies, NODE_CLASS_MAPPINGS |-> NoMappings, NODE_DISPLAY_NAME_MAPPINGS |-> NoMappings, defined |-> TRUE]
    ELSE [raised |-> FALSE, DEPENDENCIES |-> dependencies, NODE_CLASS_MAPPINGS |-> nodes.classes, NODE_DISPLAY_NAME_MAPPINGS |-> nodes.names, defined |-> TRUE]

load_probed(p, ffmpeg) ==
    IF ffmpeg.raised THEN PackageRaised
    ELSE load_mappings(import_nodes(p), [numpy |-> probe_import(p.numpy), pydub |-> probe_import(p.pydub), librosa |-> probe_import(p.librosa), soundfile |-> probe_import(p.soundfile), ffmpeg |-> ffmpeg.flag])

\* __init__.py from top to bottom; a missing host re-raises its ImportError
load_package(p) ==
    IF ~p.comfy THEN PackageRaised
    ELSE load_probed(p, probe_ffmpeg(p.ffmpeg))

\* before the package is loaded
InitLoad ==
    /\ fs = AllFiles
    /\ PYDUB_AVAILABLE = FALSE
    /\ LIBROSA_AVAILABLE = FALSE
    /\ pc = "idle"
    /\ call = NoCall
    /\ env = NoAnswer
    /\ ret = NoResult

\* the host imports the package in an interpreter with the probes p
LoadPackage ==
    /\ pc = "idle"
    /\ \E p \in Probes :
        /\ pc' = "returned"
        /\ call' = [op |-> "import"]
        /\ env' = p
        /\ ret' = load_package(p)
        /\ PYDUB_AVAILABLE' = import_nodes(p).PYDUB_AVAILABLE
        /\ LIBROSA_AVAILABLE' = import_nodes(p).LIBROSA_AVAILABLE
        /\ UNCHANGED fs

\* the interpreter exits
Unload ==
    /\ pc = "returned"
    /\ pc' = "idle"
    /\ call' = NoCall
    /\ env' = NoAnswer
    /\ ret' = NoResult
    /\ PYDUB_AVAILABLE' = FALSE
    /\ LIBROSA_AVAILABLE' = FALSE
    /\ UNCHANGED fs

NextLoad == LoadPackage \/ Unload

SpecLoad == InitLoad /\ [][NextLoad]_vars

(***************************************************************************)
(* Properties of the nodes.                                                *)
(***************************************************************************)
\* C1: for every audio reference, mode, file system and backend outcome, each
\* of the four entry points returns its output tuple: no exception leaves
\* calculate_audio_duration, extract_audio_metadata, process_audio_batch or
\* load_audio.
C1_NoExceptionPropagates == pc = "returned" /\ call.op \in {"duration", "metadata", "batch", "load"} => ret.raised = FALSE

\* a buffer of rank 0 makes _calculate_duration_from_tensor raise; the entry
\* point has returned the error tuple
C1_ExceptionCaught == pc = "returned" /\ call.op = "duration" /\ call.audio = TensorRef(Tensor(<<>>)) /\ ret.raised = FALSE /\ ret.status = <<"error: ", "exception">>

\* C2: given a path (a str, a dict's 'file_path', or one of these in a list)
\* that is empty, does not exist, is no regular file or names a file of zero
\* bytes, calculate_audio_duration returns (0.0, "00:00:00.000",
\* "error: <message>", "{}"), the message being that of the empty file for a
\* file of zero bytes, and no backend has been invoked.
C2_BadPathGivesErrorTuple ==
    \A p \in CallPaths :
        (/\ pc = "returned"
         /\ call.op = "duration"
         /\ call.audio \in {StrRef(p), PathDict({"file_path"}, p, EmptyStr), ListRef(<<StrRef(p)>>), ListRef(<<PathDict({"file_path"}, p, EmptyStr)>>)}
         /\ (p = EmptyStr \/ ~exists(p) \/ ~isfile(p) \/ getsize(p) = 0))
        => /\ ret.raised = FALSE
           /\ ret.seconds = Rounded(0, 0)
           /\ ret.formatted = "00:00:00.000"
           /\ Len(ret.status) = 2 /\ ret.status[1] = "error: "
           /\ ret.metadata.keys = {}
           /\ ret.invoked = <<>>
           /\ (exists(p) /\ isfile(p) /\ getsize(p) = 0 => ret.status[2] = "audio file is empty")

\* a list wrapping the path of a file of zero bytes was given
C2_EmptyFileInList == pc = "returned" /\ call.op = "duration" /\ call.audio = ListRef(<<StrRef(FileA)>>) /\ isfile(FileA) /\ getsize(FileA) = 0 /\ ret.status = <<"error: ", "audio file is empty">> /\ ret.invoked = <<>>

\* C3: in every result of calculate_audio_duration, whatever the backend
\* answers, the seconds value is not negative.
C3_SecondsNonNegative == pc = "returned" /\ call.op = "duration" => ret.seconds.sec >= 0

\* C4: for a buffer with sample rate R > 0 the duration before rounding is
\* S / R, S being the length for rank 1, the second dimension for rank 2
\* (whatever the first), the third dimension for ranks 3 and 4, and the last
\* dimension for any other rank.
C4_BufferDurationIsSamplesOverRate ==
    pc = "returned" /\ call.op = "tensor" /\ call.sample_rate > 0
    => LET shape == call.waveform.shape
           S == CASE Len(shape) = 1 -> shape[1]
                  [] Len(shape) = 2 -> shape[2]
                  [] Len(shape) \in {3, 4} -> shape[3]
                  [] OTHER -> shape[Len(shape)]
       IN  /\ ret.raised = FALSE
           /\ ret.duration.den > 0
           /\ (ret.duration.sec * ret.duration.den + ret.duration.num) * call.sample_rate = S * ret.duration.den

\* a buffer of rank 4 whose third and last dimensions differ: 3 samples at
\* rate 2 are a second and a half
C4_RankFourBuffer == pc = "returned" /\ call.op = "tensor" /\ call.waveform = Tensor(<<1, 2, 3, 1>>) /\ call.sample_rate = 2 /\ ret.raised = FALSE /\ ret.duration = Dur(1, 1, 2)

\* C5: for a path and mode 'auto' the mode selected is 'fast' exactly when the
\* extension, compared without regard to case, is .mp3, .aac or .m4a and pydub
\* is available; in every other case it is 'accurate'.
C5_AutoSelectsFastForCompressed ==
    /\ \A c \in {<<<<"x", ".", "m", "p", "3">>, TRUE>>, <<<<"x", ".", "M", "p", "3">>, TRUE>>, <<FileA, TRUE>>,
                 <<<<"x", ".", "a", "a", "c">>, TRUE>>, <<<<"x", ".", "A", "A", "C">>, TRUE>>,
                 <<<<"x", ".", "m", "4", "a">>, TRUE>>, <<<<"x", ".", "M", "4", "A">>, TRUE>>,
                 <<<<"x", ".", "w", "a", "v">>, FALSE>>, <<<<"x", ".", "F", "L", "A", "C">>, FALSE>>, <<FileB, FALSE>>, <<FileD, FALSE>>,
                 <<<<"x">>, FALSE>>, <<<<"m", "p", "3">>, FALSE>>, <<<<".", "m", "p", "3">>, FALSE>>,
                 <<<<"x", ".", "m", "p", "3", ".", "w", "a", "v">>, FALSE>>, <<<<"a", ".", "m", "p", "3", "/", "x">>, FALSE>>} :
           _select_calculation_mode(c[1]) = IF c[2] /\ PYDUB_AVAILABLE THEN "fast" ELSE "accurate"
    /\ \A p \in {FileA, FileB, FileD} :
           (/\ pc = "returned"
            /\ call.op = "duration"
            /\ call.calculation_mode = "auto"
            /\ call.audio \in {StrRef(p), PathDict({"file_path"}, p, EmptyStr), ListRef(<<StrRef(p)>>), ListRef(<<PathDict({"file_path"}, p, EmptyStr)>>)}
            /\ ret.status = <<"success">>)
           => ret.metadata.calculation_mode = IF p = FileA /\ PYDUB_AVAILABLE THEN "fast" ELSE "accurate"

\* the path i/a.MP3 was given with mode 'auto', pydub being available
C5_UpperCaseMp3IsFast == pc = "returned" /\ call.op = "duration" /\ call.calculation_mode = "auto" /\ call.audio = StrRef(FileA) /\ PYDUB_AVAILABLE /\ ret.status = <<"success">> /\ ret.metadata.calculation_mode = "fast" /\ ret.invoked = <<"pydub">>

\* C6: ffprobe is the last resort: it is invoked for a path only when no
\* library backend (pydub, librosa) is available to serve the call.
C6_ProbeIsLastResort == pc = "returned" /\ call.op = "duration" /\ "ffprobe" \in Range(ret.invoked) => ~PYDUB_AVAILABLE /\ ~LIBROSA_AVAILABLE

\* C7: in a record that extract_audio_metadata produces, the sections
\* 'format', 'technical' and 'tags' are present only if their flag is true;
\* with the three flags false the only key is 'file_info'.
C7_SectionsFollowFlags ==
    pc = "returned" /\ call.op = "metadata" /\ ret.metadata.keys # {}
    => /\ ("format" \in ret.metadata.keys => call.extract_format)
       /\ ("technical" \in ret.metadata.keys => call.extract_technical)
       /\ ("tags" \in ret.metadata.keys => call.extract_tags)
       /\ (~call.extract_format /\ ~call.extract_technical /\ ~call.extract_tags => ret.metadata.keys = {"file_info"})

\* C8: when ffprobe exits with a non-zero code, prints no parseable JSON or
\* times out, the call that invoked it returns its error outcome: the error
\* tuple of the duration node, the "{}" and "Error: ..." of the metadata node.
C8_ProbeFailureIsError ==
    pc = "returned" /\ call.op \in {"duration", "metadata"} /\ "ffprobe" \in Range(ret.invoked) /\ env.kind \in {"nonzero_exit", "bad_json", "timeout"}
    => IF call.op = "duration"
       THEN ret.status[1] = "error: " /\ ret.seconds = Rounded(0, 0)
       ELSE ret.metadata.keys = {} /\ ret.summary # <<>> /\ ret.summary[1] = "Error: "

\* C9: the metadata entry point, like the duration entry point, returns for a
\* list wrapping reference x what it returns for x itself (under some answer of
\* the backend).
C9_ListIsUnwrapped ==
    pc = "returned" /\ call.op = "metadata" /\ call.audio.t = "list" /\ Len(call.audio.items) = 1
    => \E a \in ProbeAnswersOf(<<"ffprobe">>) \cup {NoAnswer} :
           LET direct == extract_audio_metadata(call.audio.items[1], call.extract_format, call.extract_technical, call.extract_tags, a)
           IN  ret.metadata = direct.metadata /\ ret.summary = direct.summary /\ ret.format = direct.format /\ ret.duration = direct.duration

C11_RoundedToPrecision ==
    pc = "returned" /\ call.op = "duration" /\ call.audio.t \in {"str", "dict", "tensor"} /\ ret.status = <<"success">>
    => LET P == call.time_precision
           unrounded == IF call.audio.t = "tensor" THEN _calculate_duration_from_tensor(call.audio.waveform, DefaultSampleRate).duration
                        ELSE IF call.audio.t = "dict" /\ "waveform" \in call.audio.keys
                        THEN _calculate_duration_from_tensor(call.audio.waveform, IF "sample_rate" \in call.audio.keys THEN call.audio.sample_rate ELSE DefaultSampleRate).duration
                        ELSE IF env.backend = "ffprobe" /\ ~env.hasDuration THEN MaxStreamDuration(ZeroDur, env.streams)
                        ELSE env.duration
           \* 10^P * (unrounded - its whole seconds) = q + r / den
           L == LongDiv(unrounded.num, unrounded.den, P)
           \* 10^P * (duration_seconds - the whole seconds of unrounded)
           K == (ret.seconds.sec - unrounded.sec) * Pow10(P) + ret.seconds.micro \div Pow10(MaxPrecision - P)
       IN  /\ ret.seconds.micro % Pow10(MaxPrecision - P) = 0
           /\ \/ K = L.q /\ 2 * L.r <= unrounded.den
              \/ K = L.q + 1 /\ 2 * L.r >= unrounded.den

\* 5 samples at rate 3 with precision 2: 1.666... becomes 1.67
C11_FiveThirds == pc = "returned" /\ call.op = "duration" /\ call.audio = BufferRef(Tensor(<<5>>), {"waveform", "sample_rate"}, 3) /\ call.time_precision = 2 /\ ret.status = <<"success">> /\ ret.seconds = Rounded(1, 670000)

\* C12: for an existing directory, process_audio_batch gives exactly one
\* record per distinct regular file that matches one of the comma-separated
\* patterns, none for anything else and none twice; file_list is in
\* lexicographic order and the i-th record describes its i-th file.
C12_OneRecordPerMatchingFile ==
    pc = "returned" /\ call.op = "batch" /\ isdir(call.directory_path) /\ call.file_pattern.isStr
    => LET patterns == strip_all(split(call.file_pattern.s, ","))
           matching == {p \in FsPaths : isfile(p) /\ dirname(p) = StripSlash(call.directory_path) /\ \E pat \in patterns : fnmatch(basename(p), pat)}
           n == Len(ret.file_list)
       IN  /\ {ret.file_list[i] : i \in 1..n} = {join(call.directory_path, basename(p)) : p \in matching}
           /\ n = Cardinality(matching)
           /\ \A i \in 1..(n - 1) : StrLess(ret.file_list[i], ret.file_list[i + 1])
           /\ Len(ret.results) = n
           /\ \A i \in 1..n : ret.results[i].file = ret.file_list[i]

\* C13: for a batch over N >= 1 files the summary reads 'Processed X/N files',
\* N being the number of result records and X the number of those whose status
\* is 'success', 0 <= X <= N.
C13_SummaryCountsRecords ==
    pc = "returned" /\ call.op = "batch" /\ Len(ret.file_list) >= 1
    => /\ ret.summary.kind = "processed"
       /\ ret.summary.total = Len(ret.results)
       /\ ret.summary.total = Len(ret.file_list)
       /\ ret.summary.successful = Cardinality({i \in 1..Len(ret.results) : ret.results[i].status = "success"})
       /\ 0 <= ret.summary.successful /\ ret.summary.successful <= ret.summary.total

\* three files were found and one of them was gone when its turn came
C13_TwoOfThree == pc = "returned" /\ call.op = "batch" /\ Len(ret.results) = 3 /\ ret.summary.kind = "processed" /\ ret.summary.successful = 2 /\ ret.summary.total = 3

\* C14: when the duration or the metadata extraction of one file of a batch
\* fails, the record of that file is not counted as a success, and every file
\* found has its record.
C14_FailureIsCaptured ==
    pc = "returned" /\ call.op = "batch" /\ Len(ret.file_list) >= 1
    => /\ Len(ret.results) = Len(ret.file_list)
       /\ \A i \in 1..Len(ret.file_list) :
              LET audio_file == ret.file_list[i]
                  duration_failed == call.operation \in {"duration", "both"}
                                     /\ calculate_audio_duration(PathDict({"file_path"}, audio_file, EmptyStr), "auto", DefaultPrecision, TRUE, DefaultThresholdDb, [answer |-> env[audio_file][1], tieUp |-> FALSE]).status[1] = "error: "
                  metadata_failed == call.operation \in {"metadata", "both"}
                                     /\ extract_audio_metadata(PathDict({"file_path"}, audio_file, EmptyStr), TRUE, TRUE, FALSE, env[audio_file][2]).metadata.keys = {}
              IN  env[audio_file][1] # Gone /\ (duration_failed \/ metadata_failed) => ret.results[i].status # "success"

C16_LoadNeverRaises ==
    pc = "returned" /\ call.op = "import" /\ env.comfy
        => /\ ~ret.raised
           /\ ret.defined
           /\ \A d \in {"numpy", "pydub", "librosa", "soundfile"} : ret.DEPENDENCIES[d] => env[d]
           /\ ret.DEPENDENCIES.ffmpeg => env.ffmpeg = "ok"
           /\ DOMAIN ret.NODE_CLASS_MAPPINGS = DOMAIN ret.NODE_DISPLAY_NAME_MAPPINGS

\* loaded without pydub, librosa, soundfile and ffmpeg: the four nodes are there
C16_NothingOptionalPresent ==
    /\ pc = "returned" /\ call.op = "import" /\ env.comfy /\ env.numpy /\ env.node_module
    /\ ~env.pydub /\ ~env.librosa /\ ~env.soundfile /\ env.ffmpeg = "absent"
    /\ ~ret.raised
    /\ ~ret.DEPENDENCIES.pydub /\ ~ret.DEPENDENCIES.ffmpeg /\ ret.DEPENDENCIES.numpy
    /\ DOMAIN ret.NODE_CLASS_MAPPINGS = NodeNames
    /\ ~PYDUB_AVAILABLE /\ ~LIBROSA_AVAILABLE

\* C17: a duration call on a path that passes the validation of the file
\* invokes one backend, once, out of pydub, librosa and ffprobe; when that
\* backend fails the call returns the error tuple and nothing else was invoked.
C17_OneBackendOnce ==
    pc = "returned" /\ call.op = "duration"
    /\ (call.audio.t = "str" \/ (call.audio.t = "dict" /\ "waveform" \notin call.audio.keys /\ "file_path" \in call.audio.keys))
    => LET audio_path == IF call.audio.t = "str" THEN call.audio.s ELSE call.audio.file_path
       IN  audio_path # EmptyStr /\ exists(audio_path) /\ isfile(audio_path) /\ getsize(audio_path) > 0
           => /\ Len(ret.invoked) = 1
              /\ ret.invoked[1] \in {"pydub", "librosa", "ffprobe"}
              /\ ret.invoked[1] = env.backend
              /\ (env.kind \notin {"ok", "json"} => ret.status[1] = "error: " /\ ret.seconds = ZeroSeconds)
              /\ (ret.status = <<"success">> => env.kind \in {"ok", "json"})

\* librosa fails on a file given by its path: one invocation, the error tuple
C17_LibrosaFailsOnce ==
    /\ pc = "returned" /\ call.op = "duration" /\ call.audio = StrRef(FileB)
    /\ isfile(FileB) /\ getsize(FileB) > 0
    /\ env.backend = "librosa" /\ env.kind = "exception"
    /\ ret.invoked = <<"librosa">>
    /\ ret.status = <<"error: ", "Librosa error">>

\* C18: for a buffer of rank 2 and shape (c, n) with c <= 2 the record the
\* metadata node synthesizes reports c channels (2 for a stereo buffer) and n
\* samples, the sample count of the time axis the duration is computed from.
C18_ChannelsByRank ==
    pc = "returned" /\ call.op = "metadata" /\ call.audio.t = "dict" /\ "waveform" \in call.audio.keys
    /\ call.audio.waveform.isTensor /\ dim(call.audio.waveform) = 2 /\ call.audio.waveform.shape[1] <= 2
    => /\ ~ret.raised
       /\ ret.metadata.channels = call.audio.waveform.shape[1]
       /\ ret.metadata.total_samples = call.audio.waveform.shape[2]

\* C19: the summary of a batch carries a total duration exactly when the
\* operation is 'duration' or 'both'; the total is the sum of duration_seconds
\* over the records that have one, given in seconds below 60, in minutes from
\* 60 to below 3600 and in hours from 3600; for 'metadata' the summary is the
\* processed count alone.
C19_TotalDurationOfBatch ==
    pc = "returned" /\ call.op = "batch" /\ Len(ret.file_list) >= 1
    => LET millis(i) == IF i <= Len(ret.results) /\ ret.results[i].has_duration
                        THEN ret.results[i].duration_seconds.sec * 1000 + ret.results[i].duration_seconds.micro \div 1000
                        ELSE 0
           total == millis(1) + millis(2) + millis(3)
       IN  /\ Len(ret.results) <= 3
           /\ ret.summary.has_duration <=> call.operation \in {"duration", "both"}
           /\ ret.summary.has_duration
                  => /\ ret.summary.total_duration.sec * 1000 + ret.summary.total_duration.micro \div 1000 = total
                     /\ ret.summary.total_duration.micro % 1000 = 0
                     /\ ret.summary.unit = "s" <=> total < 60000
                     /\ ret.summary.unit = "m" <=> total >= 60000 /\ total < 3600000
                     /\ ret.summary.unit = "h" <=> total >= 3600000
           /\ ~ret.summary.has_duration => ret.summary.unit = "" /\ ret.summary.total_duration = ZeroSeconds

\* a batch of three files whose durations add up to more than an hour
C19_HoursOfThreeFiles == pc = "returned" /\ call.op = "batch" /\ call.operation = "both" /\ Len(ret.results) = 3 /\ ret.summary.has_duration /\ ret.summary.unit = "h" /\ ret.summary.total_duration.sec >= 3600

\* C20: for the same buffer, of any rank from 1 to 5, and the same sample
\* rate, positive, zero or negative, _calculate_duration_from_tensor of the
\* duration node and _get_duration_from_tensor of the metadata node give the
\* same unrounded duration.
C20_SameDurationInBothNodes ==
    pc = "returned" /\ call.op = "compare"
    => /\ ~ret.duration_node.raised
       /\ DurEq(ret.duration_node.duration, ret.metadata_node)

\* C21: in every successful result of the duration node for a buffer, of any
\* rank (rank 4 included), the metadata fields total_samples and sample_rate
\* agree with the duration: the seconds returned are total_samples /
\* sample_rate rounded to time_precision.
C21_MetadataAgreesWithDuration ==
    pc = "returned" /\ call.op = "duration" /\ call.audio.t = "dict" /\ "waveform" \in call.audio.keys
    /\ ret.status = <<"success">> /\ ret.metadata.sample_rate > 0
    => \E tieUp \in BOOLEAN :
           ret.seconds = py_round(Quot(ret.metadata.total_samples, ret.metadata.sample_rate), call.time_precision, tieUp)

\* C22: the formatted duration of every successful result of the duration
\* node, at every precision of 0..6, is a clock reading, with seconds below
\* 60.000 and minutes below 60, of a time within one millisecond of the seconds
\* returned.
C22_FormattedIsClockReading ==
    pc = "returned" /\ call.op = "duration" /\ ret.status = <<"success">> /\ ret.seconds.sec >= 0
    => LET floor_ms == ret.seconds.sec * 1000 + ret.seconds.micro \div 1000
           reading(t) == IF t \div 3600000 > 0
                         THEN Pad2(t \div 3600000) \o ":" \o Pad2((t % 3600000) \div 60000) \o ":" \o Pad2((t % 60000) \div 1000) \o "." \o Pad3(t % 1000)
                         ELSE Pad2(t \div 60000) \o ":" \o Pad2((t % 60000) \div 1000) \o "." \o Pad3(t % 1000)
       IN  ret.formatted \in {reading(floor_ms), reading(floor_ms + 1)} \cup (IF floor_ms = 0 THEN {"00:00:00.000"} ELSE {})

\* C23: include_silence and silence_threshold_db do not change the seconds,
\* the formatted duration or the status that calculate_audio_duration returns:
\* a call that differs from the one made only in these two inputs returns the
\* same first three outputs, for a buffer and for a path.
C23_SilenceInputsChangeNothing ==
    pc = "returned" /\ call.op = "duration"
    => \E tieUp \in BOOLEAN :
           /\ ret = calculate_audio_duration(call.audio, call.calculation_mode, call.time_precision, call.include_silence, call.silence_threshold_db, [answer |-> env, tieUp |-> tieUp])
           /\ \A include_silence \in BOOLEAN, silence_threshold_db \in {0 - 100, DefaultThresholdDb, 0} :
                  LET other == calculate_audio_duration(call.audio, call.calculation_mode, call.time_precision, include_silence, silence_threshold_db, [answer |-> env, tieUp |-> tieUp])
                  IN  /\ other.raised = ret.raised
                      /\ other.seconds = ret.seconds
                      /\ other.formatted = ret.formatted
                      /\ other.status = ret.status

\* a path was measured with include_silence off and gave its whole duration
C23_SilenceExcludedOnPath ==
    /\ pc = "returned" /\ call.op = "duration" /\ call.audio = StrRef(FileA) /\ ~call.include_silence
    /\ env.backend = "pydub" /\ env.kind = "ok" /\ env.duration = D5_5
    /\ ret.status = <<"success">> /\ ret.seconds = Rounded(5, 500000)

\* C24: a load_audio that fails returns ({'file_path': '', 'filename': ''}, '');
\* the duration node answers that audio value with the error tuple and the
\* metadata node with ("{}", "Error: Audio file not found", "unknown", 0.0); a
\* load_audio that succeeds returns the path of an existing file, the same in
\* the audio value and in the second output.
C24_FailedLoadStaysFailed ==
    pc = "returned" /\ call.op = "load"
    => /\ ~ret.raised
       /\ IF ret.file_path = EmptyStr
          THEN /\ ret.audio = PathDict({"file_path", "filename"}, EmptyStr, EmptyStr)
               /\ \A mode \in Modes, opt \in DurationOptions, a \in PydubAnswers \cup LibrosaAnswers \cup FfprobeAnswers \cup {NoAnswer} :
                      LET d == calculate_audio_duration(ret.audio, mode, opt[1], opt[2], opt[3], [answer |-> a, tieUp |-> FALSE])
                      IN  d.status[1] = "error: " /\ d.seconds = ZeroSeconds /\ d.formatted = "00:00:00.000" /\ d.metadata = EmptyJson
               /\ \A extract_format \in BOOLEAN, extract_technical \in BOOLEAN, extract_tags \in BOOLEAN :
                      extract_audio_metadata(ret.audio, extract_format, extract_technical, extract_tags, NoAnswer)
                          = MetaResult(EmptyMetaJson, <<"Error: ", "Audio file not found">>, "unknown", ZeroDur, <<>>)
          ELSE /\ ret.audio.file_path = ret.file_path
               /\ exists(ret.file_path)
               /\ isfile(ret.file_path)

====
